---- MODULE Spec2Model ----
(***************************************************************************)
(* Model of cobcide's MainWindow (src/cobcide/window.py): the file-open    *)
(* workflow, the toolbar state, the New, Open, Save, Save-as and Quit      *)
(* actions, the compile/run dispatcher with its one-thread QThreadPool,    *)
(* the diagnostics list and its double-click, and the file type detector.  *)
(*                                                                         *)
(* Text is modelled as sequences of lexemes (a path is a sequence of name  *)
(* lexemes, "." and "/"; a source line is a sequence of words and blanks;  *)
(* a diagnostic item is a sequence of characters).  The lexeme sets are    *)
(* prefix-free, so two sequences are equal exactly when the strings they   *)
(* spell are equal.                                                        *)
(***************************************************************************)
EXTENDS Integers, Sequences, FiniteSets, TLC

VARIABLES
    tm,         \* TabManager: [tabs, active]; active = 0 is "active_tab is None"
    ui,         \* widgets of the window: page, actions, diagnostics list, output view
    settings,   \* Settings(): the persisted last_used_path
    recent,     \* wHomePage: the recent-files record
    dialog,     \* the last blocking message box shown
    pool,       \* QThreadPool: queued runners, active runners, what each emitted
    events,     \* events posted by worker threads to the UI thread, in order
    appended,   \* history: the run of every line ever appended to the output view
    uiPc,       \* the UI thread: idle, inside cobol.compile, or window closed
    lastOp,     \* history: the last handler the UI thread ran, and how it ended
    item,       \* the text of the diagnostics list item the user double-clicks
    probe       \* detector harness: the path and file under test and the answer

vars == <<tm, ui, settings, recent, dialog, pool, events, appended, uiPc,
          lastOp, item, probe>>

-----------------------------------------------------------------------------
(* Bounds *)

MaxTabs == 2
MaxRuns == 2
MaxRunLines == 1
MaxCompiles == 1
MaxItemLen == 3
MaxPathLen == 3
MaxFileLines == 2

-----------------------------------------------------------------------------
(* Program constants *)

PAGE_HOME == 0
PAGE_EDITOR == 1

maxThreadCountTwo == 1 + 1
maxThreadCount == 1

None == "None"
Text == "Text"
Program == "Program"
Subprogram == "Subprogram"
FileType == {Text, Program, Subprogram}

-----------------------------------------------------------------------------
(* Sequences of lexemes *)

LastIndexOf(s, t) ==
    IF \E i \in 1..Len(s) : s[i] = t
    THEN CHOOSE i \in 1..Len(s) :
            s[i] = t /\ \A j \in (i+1)..Len(s) : s[j] # t
    ELSE 0

FirstIndexOf(s, t) ==
    IF \E i \in 1..Len(s) : s[i] = t
    THEN CHOOSE i \in 1..Len(s) :
            s[i] = t /\ \A j \in 1..(i-1) : s[j] # t
    ELSE 0

Contains(needle, hay) ==
    \E i \in 1..(Len(hay) - Len(needle) + 1) :
        SubSeq(hay, i, i + Len(needle) - 1) = needle

SeqsUpTo(S, n) == UNION {[1..k -> S] : k \in 0..n}

-----------------------------------------------------------------------------
(* Paths: QFileInfo.suffix, os.path.normpath, the directory of a file *)

fileName(path) == SubSeq(path, LastIndexOf(path, "/") + 1, Len(path))

suffix(path) ==
    LET n == fileName(path)
        k == LastIndexOf(n, ".")
    IN  IF k = 0 THEN <<>> ELSE SubSeq(n, k + 1, Len(n))

RECURSIVE normpath(_)
normpath(path) ==
    IF Len(path) >= 2 /\ path[Len(path)] = "/"
    THEN normpath(SubSeq(path, 1, Len(path) - 1))
    ELSE IF \E i \in 1..(Len(path) - 1) : path[i] = "/" /\ path[i+1] = "/"
    THEN LET i == CHOOSE i \in 1..(Len(path) - 1) :
                        path[i] = "/" /\ path[i+1] = "/"
         IN  normpath(SubSeq(path, 1, i) \o SubSeq(path, i + 2, Len(path)))
    ELSE path

file_dir(path) ==
    LET k == LastIndexOf(path, "/")
    IN  IF k = 0 THEN <<>> ELSE SubSeq(path, 1, k - 1)

-----------------------------------------------------------------------------
(* The file system the window runs against *)

PROC_DIV_USING == <<"PROCEDURE", " ", "DIVISION", " ", "USING">>

NoFile == [exists |-> FALSE, readable |-> FALSE, decodable |-> FALSE,
           chardet |-> None, lines |-> <<>>]

ProgFile == <<"src", "/", "p", ".", "cbl">>
SubFile  == <<"src", "/", "s", ".", "cbl">>
TextFile == <<"doc", "/", "t", ".", "txt">>
BadFile  == <<"doc", "/", "b", ".", "cbl">>
MissingFile == <<"doc", "/", "m", ".", "cbl">>
SlashedProgFile == <<"src", "/", "/", "p", ".", "cbl">>

Disk ==
    (ProgFile :> [exists |-> TRUE, readable |-> TRUE, decodable |-> TRUE,
                  chardet |-> "ascii",
                  lines |-> << <<"PROCEDURE", " ", "DIVISION", ".">> >>])
 @@ (SubFile :> [exists |-> TRUE, readable |-> TRUE, decodable |-> TRUE,
                 chardet |-> "utf-8",
                 lines |-> << <<"X">>,
                              <<"Procedure", " ", "division", " ", "using",
                                " ", "X">> >>])
 @@ (TextFile :> [exists |-> TRUE, readable |-> TRUE, decodable |-> TRUE,
                  chardet |-> None,
                  lines |-> << PROC_DIV_USING >>])
 @@ (BadFile :> [exists |-> TRUE, readable |-> TRUE, decodable |-> FALSE,
                 chardet |-> "ascii",
                 lines |-> << <<"X">> >>])

FileAt(path) ==
    IF normpath(path) \in DOMAIN Disk THEN Disk[normpath(path)] ELSE NoFile

path_exists(path) == FileAt(path).exists

OpenPaths == {<<>>, ProgFile, SubFile, TextFile, BadFile, MissingFile,
              SlashedProgFile}

-----------------------------------------------------------------------------
(* detect_file_type and detect_encoding *)

upperLexeme(t) ==
    CASE t = "Procedure" -> "PROCEDURE"
      [] t = "procedure" -> "PROCEDURE"
      [] t = "division"  -> "DIVISION"
      [] t = "using"     -> "USING"
      [] t = "x"         -> "X"
      [] OTHER           -> t

upper(l) == [i \in 1..Len(l) |-> upperLexeme(l[i])]

detect_file_type_no_upper(filename, file) ==
    IF suffix(filename) = <<"cbl">>
    THEN IF file.readable
              /\ \E i \in 1..Len(file.lines) :
                    Contains(PROC_DIV_USING, file.lines[i])
         THEN Subprogram
         ELSE Program
    ELSE Text

detect_file_type(filename, file) ==
    IF suffix(filename) = <<"cbl">>
    THEN IF file.readable
              /\ \E i \in 1..Len(file.lines) :
                    Contains(PROC_DIV_USING, upper(file.lines[i]))
         THEN Subprogram
         ELSE Program
    ELSE Text

getfilesystemencoding == "fs-default"

detect_encoding(file) ==
    IF file.readable /\ file.chardet # None
    THEN file.chardet
    ELSE getfilesystemencoding

-----------------------------------------------------------------------------
(* TabManager and ErrorsManager, as the window uses them *)

NewTab(filename, filetype, encoding) ==
    [file |-> filename, fileType |-> filetype, cobol |-> filetype # Text,
     tagEncoding |-> encoding, errors_manager |-> FALSE, errors |-> {},
     compiles |-> 0, cursor |-> 1, dirty |-> FALSE]

has_open_tabs(t) == Len(t.tabs) > 0

active_tab(t) == t.tabs[t.active]

IsCobolEditor(t) == t.active # 0 /\ active_tab(t).cobol

active_tab_type(t) == IF t.active = 0 THEN None ELSE active_tab(t).fileType

active_tab_filename(t) == active_tab(t).file

active_tab_file_dir(t) == file_dir(active_tab(t).file)

open_tab(t, filename, filetype, encoding) ==
    [tabs |-> Append(t.tabs, NewTab(filename, filetype, encoding)),
     active |-> Len(t.tabs) + 1]

RemoveAt(s, i) == SubSeq(s, 1, i - 1) \o SubSeq(s, i + 1, Len(s))

close_tab(t, i) ==
    [tabs |-> RemoveAt(t.tabs, i),
     active |-> IF i < t.active THEN t.active - 1
                ELSE IF i = t.active /\ i = Len(t.tabs) THEN i - 1
                ELSE t.active]

set_current(t, i) == [t EXCEPT !.active = i]

\* TabManager.is_clean: no tab holds unsaved changes
is_clean(t) == \A i \in 1..Len(t.tabs) : ~ t.tabs[i].dirty

-----------------------------------------------------------------------------
(* MainWindow.__update_toolbar *)

AllDisabled ==
    [save_as |-> FALSE, save |-> FALSE, compile |-> FALSE, run |-> FALSE,
     program |-> FALSE, subprogram |-> FALSE,
     programChecked |-> FALSE, subprogramChecked |-> FALSE]

update_toolbar_run_for_subprogram(a, t) ==
    IF ~ has_open_tabs(t)
    THEN AllDisabled
    ELSE IF IsCobolEditor(t)
    THEN LET b == [a EXCEPT !.save_as = TRUE, !.save = TRUE,
                            !.compile = TRUE, !.run = TRUE,
                            !.program = TRUE, !.subprogram = TRUE]
         IN  IF active_tab_type(t) = Program
             THEN [b EXCEPT !.programChecked = TRUE,
                            !.subprogramChecked = FALSE]
             ELSE IF active_tab_type(t) = Subprogram
             THEN [b EXCEPT !.programChecked = FALSE,
                            !.subprogramChecked = TRUE]
             ELSE b
    ELSE [a EXCEPT !.save_as = TRUE, !.save = TRUE,
                   !.compile = FALSE, !.run = FALSE,
                   !.program = FALSE, !.subprogram = FALSE,
                   !.programChecked = FALSE, !.subprogramChecked = FALSE]

update_toolbar(a, t) ==
    IF ~ has_open_tabs(t)
    THEN [a EXCEPT !.save_as = FALSE, !.save = FALSE,
                   !.compile = FALSE, !.run = FALSE,
                   !.program = FALSE, !.programChecked = FALSE,
                   !.subprogram = FALSE, !.subprogramChecked = FALSE]
    ELSE IF IsCobolEditor(t)
    THEN LET b == [a EXCEPT !.save_as = TRUE, !.save = TRUE,
                            !.compile = TRUE, !.run = TRUE,
                            !.program = TRUE, !.subprogram = TRUE]
         IN  IF active_tab_type(t) = Program
             THEN [b EXCEPT !.programChecked = TRUE,
                            !.subprogramChecked = FALSE]
             ELSE IF active_tab_type(t) = Subprogram
             THEN [b EXCEPT !.programChecked = FALSE,
                            !.subprogramChecked = TRUE,
                            !.run = FALSE]
             ELSE b
    ELSE [a EXCEPT !.save_as = TRUE, !.save = TRUE,
                   !.compile = FALSE, !.run = FALSE,
                   !.program = FALSE, !.subprogram = FALSE,
                   !.programChecked = FALSE, !.subprogramChecked = FALSE]

-----------------------------------------------------------------------------
(* MainWindow.__update_status_bar_infos: the filename and encoding labels  *)

NoStatus == [filename |-> <<>>, encoding |-> None]

update_status_bar_infos(u, t) ==
    IF t.active # 0
    THEN [u EXCEPT !.status = [filename |-> active_tab(t).file,
                               encoding |-> active_tab(t).tagEncoding]]
    ELSE [u EXCEPT !.status = NoStatus]

-----------------------------------------------------------------------------
(* MainWindow.__on_current_tab_changed: the handler of TabManager.tabChanged *)

on_current_tab_changed(u, t) ==
  update_status_bar_infos(
    IF t.active # 0
    THEN [u EXCEPT !.act = update_toolbar(u.act, t),
                   !.listErrors =
                        IF IsCobolEditor(t)
                        THEN IF active_tab(t).errors_manager
                             THEN active_tab(t).errors
                             ELSE u.listErrors
                        ELSE {},
                   !.logsTab = 0]
    ELSE [u EXCEPT !.act = update_toolbar(u.act, t),
                   !.output = <<>>,
                   !.listErrors = {},
                   !.page = PAGE_HOME],
    t)

-----------------------------------------------------------------------------
(* MainWindow._open_file.  The state a handler works on is the record     *)
(* [tm, ui, settings, recent, dialog]; res tells how the call ended.      *)

Window == [tm |-> tm, ui |-> ui, settings |-> settings, recent |-> recent,
           dialog |-> dialog]

setCurrentFile(r, filename) == r \cup {filename}

open_file_guard_nonempty(filename) == filename # <<>>

open_file_guard(filename) == filename # <<>> /\ path_exists(filename)

\* Python's truth value of the filetype argument (`if not filetype`): None
\* is false, an enumerated classification is true
truthy(filetype) == filetype # None

resolve_file_type_by_detection(filename, file, filetype) ==
    detect_file_type(filename, file)

resolve_file_type(filename, file, filetype) ==
    IF ~ truthy(filetype)
    THEN detect_file_type(filename, file)
    ELSE filetype

\* _open_file past its guard, for the normalised path fn that holds file
open_existing(w, fn, file, filetype) ==
    LET u0   == [w.ui EXCEPT !.page = PAGE_EDITOR]
        ft   == resolve_file_type(fn, file, filetype)
        enc  == detect_encoding(file)
    IN  IF ~ file.decodable
        THEN \* open_tab raised UnicodeDecodeError
             [tm |-> w.tm, ui |-> u0, settings |-> w.settings,
              recent |-> w.recent, dialog |-> "Bad encoding",
              res |-> "UnicodeDecodeError"]
        ELSE LET t1 == open_tab(w.tm, fn, ft, enc)
                 \* open_tab makes the new tab current: tabChanged
                 u1 == on_current_tab_changed(u0, t1)
                 t2 == IF active_tab(t1).cobol
                       THEN [t1 EXCEPT
                               !.tabs[t1.active].errors_manager = TRUE]
                       ELSE t1
             IN  [tm |-> t2,
                  ui |-> [u1 EXCEPT !.act = update_toolbar(u1.act, t2)],
                  settings |-> [w.settings EXCEPT !.last_used_path =
                                   active_tab_file_dir(t1)],
                  recent |-> setCurrentFile(w.recent, fn),
                  dialog |-> w.dialog,
                  res |-> "opened"]

open_file(w, filename, filetype) ==
    IF open_file_guard(filename)
    THEN open_existing(w, normpath(filename), FileAt(normpath(filename)),
                       filetype)
    ELSE [tm |-> w.tm, ui |-> w.ui, settings |-> w.settings,
          recent |-> w.recent, dialog |-> w.dialog, res |-> "rejected"]

PathKind(filename) ==
    IF filename = <<>> THEN "empty"
    ELSE IF ~ FileAt(filename).exists THEN "missing"
    ELSE "existing"

-----------------------------------------------------------------------------
(* State after MainWindow.__init__ *)

NoItem == <<>>
NoProbe == [path |-> <<>>, file |-> NoFile, type |-> None]

W0 ==
    [tm |-> [tabs |-> <<>>, active |-> 0],
     ui |-> [page |-> PAGE_HOME,
             act |-> update_toolbar(
                        [save_as |-> TRUE, save |-> TRUE, compile |-> TRUE,
                         run |-> TRUE, program |-> TRUE, subprogram |-> TRUE,
                         programChecked |-> FALSE,
                         subprogramChecked |-> FALSE],
                        [tabs |-> <<>>, active |-> 0]),
             listErrors |-> {}, output |-> <<>>, logsTab |-> 0,
             status |-> NoStatus],
     settings |-> [last_used_path |-> <<>>],
     recent |-> {},
     dialog |-> None]

InitWindow(w) ==
    /\ tm = w.tm
    /\ ui = w.ui
    /\ settings = w.settings
    /\ recent = w.recent
    /\ dialog = w.dialog
    /\ pool = [queue |-> <<>>, active |-> {}, submitted |-> 0,
               emitted |-> [r \in 1..MaxRuns |-> 0]]
    /\ events = <<>>
    /\ appended = <<>>
    /\ uiPc = "idle"
    /\ lastOp = [op |-> "init", arg |-> None, res |-> None]

Init ==
    /\ InitWindow(W0)
    /\ item = NoItem
    /\ probe = NoProbe

-----------------------------------------------------------------------------
(* Handlers run by the UI thread *)

Idle == uiPc = "idle"

Install(w) ==
    /\ tm' = w.tm
    /\ ui' = w.ui
    /\ settings' = w.settings
    /\ recent' = w.recent
    /\ dialog' = w.dialog

on_wHomePage_recent_action_triggered(filename) ==
    /\ Idle
    /\ LET w == open_file(Window, filename, None)
       IN  /\ Len(w.tm.tabs) <= MaxTabs
           /\ Install(w)
           /\ lastOp' = [op |-> "open", arg |-> PathKind(filename),
                         res |-> w.res]
    /\ UNCHANGED <<pool, events, appended, uiPc, item, probe>>

\* the same, for a file that no tab shows yet
open_unopened(filename) ==
    /\ \A i \in 1..Len(tm.tabs) : tm.tabs[i].file # normpath(filename)
    /\ on_wHomePage_recent_action_triggered(filename)

tabCloseRequested(i) ==
    /\ Idle
    /\ i <= Len(tm.tabs)
    /\ tm' = close_tab(tm, i)
    /\ IF i = tm.active
       THEN /\ ui' = on_current_tab_changed(ui, tm')
            /\ lastOp' = [op |-> "tabChanged", arg |-> "close", res |-> None]
       ELSE /\ ui' = ui
            /\ lastOp' = [op |-> "tabClosed", arg |-> None, res |-> None]
    /\ UNCHANGED <<settings, recent, dialog, pool, events, appended, uiPc,
                   item, probe>>

currentChanged(i) ==
    /\ Idle
    /\ i <= Len(tm.tabs)
    /\ i # tm.active
    /\ tm' = set_current(tm, i)
    /\ ui' = on_current_tab_changed(ui, tm')
    /\ lastOp' = [op |-> "tabChanged", arg |-> "switch", res |-> None]
    /\ UNCHANGED <<settings, recent, dialog, pool, events, appended, uiPc,
                   item, probe>>

change_current_file_type_of_first_tab(action) ==
    /\ Idle
    /\ ui.act[action]
    /\ tm' = IF active_tab_type(tm) # Text
             THEN [tm EXCEPT !.tabs[1].fileType =
                        IF action = "program" THEN Program ELSE Subprogram]
             ELSE tm
    /\ ui' = [ui EXCEPT !.act = update_toolbar(ui.act, tm')]
    /\ lastOp' = [op |-> "fileType", arg |-> action, res |-> None]
    /\ UNCHANGED <<settings, recent, dialog, pool, events, appended, uiPc,
                   item, probe>>

change_current_file_type(action) ==
    /\ Idle
    /\ ui.act[action]
    /\ tm' = IF active_tab_type(tm) # Text
             THEN [tm EXCEPT !.tabs[tm.active].fileType =
                        IF action = "program" THEN Program ELSE Subprogram]
             ELSE tm
    /\ ui' = [ui EXCEPT !.act = update_toolbar(ui.act, tm')]
    /\ lastOp' = [op |-> "fileType", arg |-> action, res |-> None]
    /\ UNCHANGED <<settings, recent, dialog, pool, events, appended, uiPc,
                   item, probe>>

-----------------------------------------------------------------------------
(* The Open action: the file dialog, _open_file, and then the argument of  *)
(* QTimer.singleShot, self.__tab_manager.active_tab.codeEdit.setFocus, is  *)
(* evaluated: with no active tab it is an attribute of None.               *)

on_actionOpen_triggered(w, filename) ==
    LET o == open_file(w, filename, None)
    IN  [o EXCEPT !.res = IF o.tm.active = 0 THEN "AttributeError" ELSE @]

actionOpen_triggered(filename) ==
    /\ Idle
    /\ LET w == on_actionOpen_triggered(Window, filename)
       IN  /\ Len(w.tm.tabs) <= MaxTabs
           /\ Install(w)
           /\ lastOp' = [op |-> "actionOpen", arg |-> PathKind(filename),
                         res |-> w.res]
    /\ UNCHANGED <<pool, events, appended, uiPc, item, probe>>

-----------------------------------------------------------------------------
(* The New action: the classification chosen in DlgFileType, the file name *)
(* chosen in the save dialog, the empty file written there, _open_file.    *)

EmptyFile == [exists |-> TRUE, readable |-> TRUE, decodable |-> TRUE,
              chardet |-> None, lines |-> <<>>]

default_ext(choice) ==
    IF choice = Text THEN <<".", "txt">> ELSE <<".", "cbl">>

new_filename(choice, filename) ==
    IF suffix(filename) = <<>>
    THEN filename \o default_ext(choice)
    ELSE filename

on_actionNew_triggered(w, choice, filename) ==
    IF filename # <<>>
    THEN \* open(filename, "w") wrote the empty file: the guard of
         \* _open_file holds for it
         open_existing(w, normpath(new_filename(choice, filename)),
                       EmptyFile, choice)
    ELSE [tm |-> w.tm, ui |-> w.ui, settings |-> w.settings,
          recent |-> w.recent, dialog |-> w.dialog, res |-> "cancelled"]

NewPaths == {<<>>, <<"new", "/", "n">>, <<"new", "/", "n", ".", "txt">>,
             <<"new", "/", "c", ".", "cbl">>}

\* the user creates a file that no tab shows yet
actionNew_triggered(choice, filename) ==
    /\ Idle
    /\ \A i \in 1..Len(tm.tabs) :
          tm.tabs[i].file # normpath(new_filename(choice, filename))
    /\ LET w == on_actionNew_triggered(Window, choice, filename)
       IN  /\ Len(w.tm.tabs) <= MaxTabs
           /\ Install(w)
           /\ lastOp' = [op |-> "new",
                         arg |-> [choice |-> choice, filename |-> filename],
                         res |-> w.res]
    /\ UNCHANGED <<pool, events, appended, uiPc, item, probe>>

-----------------------------------------------------------------------------
(* Save and Compile.  cobol.compile is a blocking call made by the UI      *)
(* thread: on_actionCompile_triggered is split where the call is entered   *)
(* and where it returns, so that what the worker thread does meanwhile is  *)
(* visible.                                                                *)

\* how a write by pcef's saveFileFromEditor can end
WriteOutcomes == {"ok", "UnicodeEncodeError", "IOError"}
RetryOutcomes == {"ok", "IOError"}

\* saveFileFromEditor, the write done: the editor is tagged with the file
\* name and the encoding it was written with, and holds no unsaved change
saveFileFromEditor(t, filename, encoding) ==
    [t EXCEPT !.tabs[t.active].file = filename,
              !.tabs[t.active].tagEncoding = encoding,
              !.tabs[t.active].dirty = FALSE]

save_writes_retry_any_error(filename, encoding, first, retry) ==
    IF first # "ok"
    THEN << [file |-> filename, encoding |-> encoding, outcome |-> first],
            [file |-> filename, encoding |-> "utf-8", outcome |-> retry] >>
    ELSE << [file |-> filename, encoding |-> encoding, outcome |-> first] >>

\* try: saveFileFromEditor(.., tagEncoding)
\* except UnicodeEncodeError: saveFileFromEditor(.., 'utf-8')
\* the writes attempted, in order; an outcome that is not ok and not caught
\* leaves the handler as an exception
save_writes(filename, encoding, first, retry) ==
    IF first = "UnicodeEncodeError"
    THEN << [file |-> filename, encoding |-> encoding, outcome |-> first],
            [file |-> filename, encoding |-> "utf-8", outcome |-> retry] >>
    ELSE << [file |-> filename, encoding |-> encoding, outcome |-> first] >>

on_actionSave_triggered(w, first, retry) ==
    LET wr   == save_writes(active_tab_filename(w.tm),
                            active_tab(w.tm).tagEncoding, first, retry)
        last == wr[Len(wr)]
    IN  IF last.outcome = "ok"
        THEN LET t1 == saveFileFromEditor(w.tm, last.file, last.encoding)
             IN  [tm |-> t1,
                  ui |-> update_status_bar_infos(w.ui, t1),
                  settings |-> w.settings,
                  recent |-> setCurrentFile(w.recent, active_tab_filename(t1)),
                  dialog |-> w.dialog,
                  writes |-> wr, res |-> "saved"]
        ELSE [tm |-> w.tm, ui |-> w.ui, settings |-> w.settings,
              recent |-> w.recent, dialog |-> w.dialog,
              writes |-> wr, res |-> last.outcome]

on_actionSave_as_triggered_always_path(w, filename, first, retry) ==
    IF filename # <<>>
    THEN LET fn   == normpath(filename)
             wr   == save_writes(fn, active_tab(w.tm).tagEncoding,
                                 first, retry)
             last == wr[Len(wr)]
         IN  IF last.outcome = "ok"
             THEN LET t1 == saveFileFromEditor(w.tm, fn, last.encoding)
                  IN  [tm |-> t1,
                       ui |-> update_status_bar_infos(w.ui, t1),
                       settings |-> [w.settings EXCEPT !.last_used_path =
                                        active_tab_file_dir(t1)],
                       recent |-> setCurrentFile(w.recent, fn),
                       dialog |-> w.dialog,
                       writes |-> wr, res |-> "saved"]
             ELSE [tm |-> w.tm, ui |-> w.ui, settings |-> w.settings,
                   recent |-> w.recent, dialog |-> w.dialog,
                   writes |-> wr, res |-> last.outcome]
    ELSE [tm |-> w.tm,
          ui |-> update_status_bar_infos(w.ui, w.tm),
          settings |-> [w.settings EXCEPT !.last_used_path =
                           active_tab_file_dir(w.tm)],
          recent |-> w.recent, dialog |-> w.dialog,
          writes |-> <<>>, res |-> "cancelled"]

on_actionSave_as_triggered(w, filename, first, retry) ==
    IF filename # <<>>
    THEN LET fn   == normpath(filename)
             wr   == save_writes(fn, active_tab(w.tm).tagEncoding,
                                 first, retry)
             last == wr[Len(wr)]
         IN  IF last.outcome = "ok"
             THEN LET t1 == saveFileFromEditor(w.tm, fn, last.encoding)
                  IN  [tm |-> t1,
                       ui |-> update_status_bar_infos(w.ui, t1),
                       settings |-> [w.settings EXCEPT !.last_used_path =
                                        active_tab_file_dir(t1)],
                       recent |-> setCurrentFile(w.recent, fn),
                       dialog |-> w.dialog,
                       writes |-> wr, res |-> "saved"]
             ELSE [tm |-> w.tm, ui |-> w.ui, settings |-> w.settings,
                   recent |-> w.recent, dialog |-> w.dialog,
                   writes |-> wr, res |-> last.outcome]
    ELSE [tm |-> w.tm,
          ui |-> update_status_bar_infos(w.ui, w.tm),
          settings |-> w.settings,
          recent |-> w.recent, dialog |-> w.dialog,
          writes |-> <<>>, res |-> "cancelled"]

\* the user types in the active editor: it holds an unsaved change
editor_modified ==
    /\ Idle
    /\ tm.active # 0
    /\ ~ active_tab(tm).dirty
    /\ tm' = [tm EXCEPT !.tabs[tm.active].dirty = TRUE]
    /\ lastOp' = [op |-> "edit", arg |-> None, res |-> None]
    /\ UNCHANGED <<ui, settings, recent, dialog, pool, events, appended,
                   uiPc, item, probe>>

actionSave_triggered ==
    /\ Idle
    /\ ui.act.save
    /\ \E first \in WriteOutcomes, retry \in RetryOutcomes :
          LET w == on_actionSave_triggered(Window, first, retry)
          IN  /\ Install(w)
              /\ lastOp' = [op |-> "save", arg |-> w.writes, res |-> w.res]
    /\ UNCHANGED <<pool, events, appended, uiPc, item, probe>>

SaveAsPaths == {<<>>, <<"out", "/", "/", "q", ".", "cbl">>}

actionSave_as_triggered ==
    /\ Idle
    /\ ui.act.save_as
    /\ \E filename \in SaveAsPaths,
          first \in WriteOutcomes, retry \in RetryOutcomes :
          LET w == on_actionSave_as_triggered(Window, filename, first, retry)
          IN  /\ Install(w)
              /\ lastOp' = [op |-> "save_as",
                            arg |-> [filename |-> filename,
                                     writes |-> w.writes],
                            res |-> w.res]
    /\ UNCHANGED <<pool, events, appended, uiPc, item, probe>>

Diagnostics(filename, n) == {[file |-> filename, compile |-> n]}

set_errors(w, errors) ==
    [w EXCEPT !.tm.tabs[w.tm.active].errors = errors,
              !.tm.tabs[w.tm.active].compiles = @ + 1,
              !.ui.listErrors = errors]

compile_invoked_whatever_the_save(saved) == TRUE

\* cobol.compile is reached only if on_actionSave_triggered returned: an
\* exception of the save leaves on_actionCompile_triggered as well
compile_invoked(saved) == saved = "saved"

on_actionCompile_triggered ==
    /\ Idle
    /\ ui.act.compile
    /\ active_tab(tm).compiles < MaxCompiles
    /\ \E first \in WriteOutcomes, retry \in RetryOutcomes :
          LET w == on_actionSave_triggered(
                      [Window EXCEPT !.ui.logsTab = 0], first, retry)
          IN  /\ Install(w)
              /\ IF compile_invoked(w.res)
                 THEN /\ uiPc' = "compile"
                      /\ lastOp' =
                            [op |-> "compile",
                             arg |-> [filename |-> active_tab_filename(w.tm),
                                      type |-> active_tab_type(w.tm)],
                             res |-> w.res]
                 ELSE /\ uiPc' = "idle"
                      /\ lastOp' = [op |-> "compile", arg |-> None,
                                    res |-> w.res]
    /\ UNCHANGED <<pool, events, appended, item, probe>>

compile_returns ==
    /\ uiPc = "compile"
    /\ \E failed \in BOOLEAN :
          Install(set_errors(Window,
                     IF failed
                     THEN Diagnostics(active_tab_filename(tm),
                                      active_tab(tm).compiles + 1)
                     ELSE {}))
    /\ uiPc' = "idle"
    /\ lastOp' = [op |-> "compile", arg |-> lastOp.arg, res |-> "done"]
    /\ UNCHANGED <<pool, events, appended, item, probe>>

-----------------------------------------------------------------------------
(* closeEvent: event.ignore(), then event.accept() if the Tab Manager is   *)
(* clean or its cleanup() returns true.  cleanup is the answer cleanup()   *)
(* gives when it is called; an accepted close ends the UI thread's work.   *)

closeEvent_cleanup_first(t, cleanup) ==
    [accepted |-> cleanup \/ is_clean(t), cleanup_called |-> TRUE]

closeEvent(t, cleanup) ==
    IF is_clean(t)
    THEN [accepted |-> TRUE, cleanup_called |-> FALSE]
    ELSE [accepted |-> cleanup, cleanup_called |-> TRUE]

close(op) ==
    /\ Idle
    /\ \E cleanup \in BOOLEAN :
          LET e == closeEvent(tm, cleanup)
          IN  /\ uiPc' = IF e.accepted THEN "closed" ELSE "idle"
              /\ lastOp' = [op |-> op,
                            arg |-> [cleanup_called |-> e.cleanup_called,
                                     cleanup |-> e.cleanup_called /\ cleanup],
                            res |-> IF e.accepted THEN "accepted"
                                    ELSE "ignored"]
    /\ UNCHANGED <<tm, ui, settings, recent, dialog, pool, events, appended,
                   item, probe>>

\* the window system asks the window to close
closeEvent_received == close("closeEvent")

\* on_actionQuit_triggered: self.close(), which sends the closeEvent
on_actionQuit_triggered == close("quit")

-----------------------------------------------------------------------------
(* Run: the runner tasks, the thread pool and the posted events *)

threadPool_start_unless_busy(p, runner) ==
    IF p.active # {}
    THEN [p EXCEPT !.submitted = runner]
    ELSE [p EXCEPT !.queue = Append(@, runner), !.submitted = runner]

threadPool_start(p, runner) ==
    [p EXCEPT !.queue = Append(@, runner), !.submitted = runner]

on_actionRun_triggered ==
    /\ Idle
    /\ ui.act.run
    /\ pool.submitted < MaxRuns
    /\ ui' = [ui EXCEPT !.logsTab = 1, !.output = <<>>]
    /\ pool' = threadPool_start(pool, pool.submitted + 1)
    /\ lastOp' = [op |-> "run", arg |-> None, res |-> None]
    /\ UNCHANGED <<tm, settings, recent, dialog, events, appended, uiPc,
                   item, probe>>

\* a pool thread takes the next queued runner
Runner_start ==
    /\ pool.queue # <<>>
    /\ Cardinality(pool.active) < maxThreadCount
    /\ pool' = [pool EXCEPT !.queue = Tail(@),
                            !.active = @ \cup {Head(pool.queue)}]
    /\ UNCHANGED <<tm, ui, settings, recent, dialog, events, appended, uiPc,
                   lastOp, item, probe>>

\* Runner.run emits lineAvailable or error
Runner_emit(r, kind) ==
    /\ r \in pool.active
    /\ pool.emitted[r] < MaxRunLines
    /\ pool' = [pool EXCEPT !.emitted[r] = @ + 1]
    /\ events' = Append(events, [kind |-> kind, run |-> r])
    /\ UNCHANGED <<tm, ui, settings, recent, dialog, appended, uiPc,
                   lastOp, item, probe>>

\* Runner.run ends: finished is emitted and the thread is free again
Runner_finished(r) ==
    /\ r \in pool.active
    /\ pool' = [pool EXCEPT !.active = @ \ {r}]
    /\ events' = Append(events, [kind |-> "finished", run |-> r])
    /\ UNCHANGED <<tm, ui, settings, recent, dialog, appended, uiPc,
                   lastOp, item, probe>>

on_run_error(w, r) ==
    [w EXCEPT !.ui.output = Append(@, r),
              !.dialog = "Error executing program"]

\* what Runner emits with finished: Run is enabled again on completion
finished_payload == TRUE

\* the UI thread's event loop delivers the oldest posted event to its slot
deliver_event ==
    /\ Idle
    /\ events # <<>>
    /\ LET e == Head(events)
       IN  /\ events' = Tail(events)
           /\ CASE e.kind = "finished" ->
                      /\ Install([Window EXCEPT !.ui.act.run = finished_payload])
                      /\ appended' = appended
                [] e.kind = "lineAvailable" ->
                      /\ Install([Window EXCEPT
                                    !.ui.output = Append(@, e.run)])
                      /\ appended' = Append(appended, e.run)
                [] e.kind = "error" ->
                      /\ Install(on_run_error(Window, e.run))
                      /\ appended' = Append(appended, e.run)
           /\ lastOp' = [op |-> e.kind, arg |-> None, res |-> None]
    /\ UNCHANGED <<pool, uiPc, item, probe>>

-----------------------------------------------------------------------------
(* Diagnostics double-click: item.text().split(':')[0] and int()           *)

ItemChars == {"0", "1", " ", ":", "e", "-"}
Digit == ("0" :> 0) @@ ("1" :> 1) @@ ("2" :> 2) @@ ("3" :> 3) @@ ("4" :> 4)
      @@ ("5" :> 5) @@ ("6" :> 6) @@ ("7" :> 7) @@ ("8" :> 8) @@ ("9" :> 9)

split_last(text) == SubSeq(text, LastIndexOf(text, ":") + 1, Len(text))

split_first(text) ==
    IF FirstIndexOf(text, ":") = 0
    THEN text
    ELSE SubSeq(text, 1, FirstIndexOf(text, ":") - 1)

RECURSIVE strip(_)
strip(s) ==
    IF s # <<>> /\ Head(s) = " " THEN strip(Tail(s))
    ELSE IF s # <<>> /\ s[Len(s)] = " " THEN strip(SubSeq(s, 1, Len(s) - 1))
    ELSE s

RECURSIVE digits_value(_)
digits_value(s) ==
    IF s = <<>> THEN 0
    ELSE 10 * digits_value(SubSeq(s, 1, Len(s) - 1)) + Digit[s[Len(s)]]

\* Python's int(str): [ok |-> FALSE] stands for ValueError
int(s) ==
    LET t    == strip(s)
        neg  == t # <<>> /\ Head(t) = "-"
        body == IF neg THEN Tail(t) ELSE t
    IN  IF body # <<>> /\ \A i \in 1..Len(body) : body[i] \in DOMAIN Digit
        THEN [ok |-> TRUE,
              val |-> IF neg THEN 0 - digits_value(body)
                      ELSE digits_value(body)]
        ELSE [ok |-> FALSE, val |-> 0]

on_error_double_clicked(t, text) ==
    IF int(split_first(text)).ok
    THEN [tm |-> [t EXCEPT !.tabs[t.active].cursor =
                                int(split_first(text)).val],
          res |-> "moved"]
    ELSE \* except ValueError: pass
         [tm |-> t, res |-> "ignored"]

itemDoubleClicked ==
    /\ Idle
    /\ ui.listErrors # {}
    /\ tm.active # 0
    /\ tm' = on_error_double_clicked(tm, item).tm
    /\ lastOp' = [op |-> "doubleClick", arg |-> None,
                  res |-> on_error_double_clicked(tm, item).res]
    /\ UNCHANGED <<ui, settings, recent, dialog, pool, events, appended,
                   uiPc, item, probe>>

ItemTexts == SeqsUpTo(ItemChars, MaxItemLen)

-----------------------------------------------------------------------------
(* Spec: the open workflow and the tabs.  Files are opened from the recent *)
(* list, tabs are closed and switched, the classification is toggled.      *)

Next ==
    \/ \E filename \in OpenPaths :
            on_wHomePage_recent_action_triggered(filename)
    \/ \E i \in 1..MaxTabs : tabCloseRequested(i)
    \/ \E i \in 1..MaxTabs : currentChanged(i)
    \/ \E action \in {"program", "subprogram"} :
            change_current_file_type(action)

Spec == Init /\ [][Next]_vars

-----------------------------------------------------------------------------
(* SpecRun: the run dispatcher.  A program and a subprogram can be opened  *)
(* once each; runs are submitted while tabs are switched, toggled, closed. *)

NextRun ==
    \/ \E filename \in {ProgFile, SubFile} : open_unopened(filename)
    \/ \E i \in 1..MaxTabs : tabCloseRequested(i)
    \/ \E i \in 1..MaxTabs : currentChanged(i)
    \/ \E action \in {"program", "subprogram"} :
            change_current_file_type(action)
    \/ on_actionRun_triggered
    \/ Runner_start
    \/ \E r \in 1..MaxRuns, kind \in {"lineAvailable", "error"} :
            Runner_emit(r, kind)
    \/ \E r \in 1..MaxRuns : Runner_finished(r)
    \/ deliver_event

SpecRun == Init /\ [][NextRun]_vars

-----------------------------------------------------------------------------
(* SpecQueue: the run queue under fair scheduling.  The program is opened  *)
(* and run repeatedly.  A pool thread that can take a queued runner        *)
(* eventually takes it, a runner that executes eventually ends, and the    *)
(* event loop of the UI thread eventually delivers a posted event.         *)

NextQueue ==
    \/ open_unopened(ProgFile)
    \/ on_actionRun_triggered
    \/ Runner_start
    \/ \E r \in 1..MaxRuns, kind \in {"lineAvailable", "error"} :
            Runner_emit(r, kind)
    \/ \E r \in 1..MaxRuns : Runner_finished(r)
    \/ deliver_event

SpecQueue ==
    /\ Init
    /\ [][NextQueue]_vars
    /\ WF_vars(Runner_start)
    /\ WF_vars(\E r \in 1..MaxRuns : Runner_finished(r))
    /\ WF_vars(deliver_event)

-----------------------------------------------------------------------------
(* SpecCompile: compile and run side by side.  A program and a text file   *)
(* can be opened once each; the program is compiled and run.               *)

NextCompile ==
    \/ \E filename \in {ProgFile, TextFile} : open_unopened(filename)
    \/ \E i \in 1..MaxTabs : tabCloseRequested(i)
    \/ \E i \in 1..MaxTabs : currentChanged(i)
    \/ on_actionCompile_triggered
    \/ compile_returns
    \/ on_actionRun_triggered
    \/ Runner_start
    \/ \E r \in 1..MaxRuns, kind \in {"lineAvailable", "error"} :
            Runner_emit(r, kind)
    \/ \E r \in 1..MaxRuns : Runner_finished(r)
    \/ deliver_event

SpecCompile == Init /\ [][NextCompile]_vars

-----------------------------------------------------------------------------
(* SpecOpen: the Open action.  The file dialog returns any of the paths,   *)
(* the empty path when it is cancelled; tabs are closed.                   *)

NextOpen ==
    \/ \E filename \in OpenPaths : actionOpen_triggered(filename)
    \/ \E i \in 1..MaxTabs : tabCloseRequested(i)

SpecOpen == Init /\ [][NextOpen]_vars

-----------------------------------------------------------------------------
(* SpecNew: files are created with a chosen classification and a chosen    *)
(* name, existing files are opened from the recent list, tabs are closed.  *)

NextNew ==
    \/ \E choice \in FileType, filename \in NewPaths :
            actionNew_triggered(choice, filename)
    \/ \E filename \in {ProgFile, SubFile, TextFile} : open_unopened(filename)
    \/ \E i \in 1..MaxTabs : tabCloseRequested(i)

SpecNew == Init /\ [][NextNew]_vars

-----------------------------------------------------------------------------
(* SpecSave: editing and saving.  A program and a text file can be opened  *)
(* while no tab shows them; the active editor is modified, saved and saved *)
(* under another name, and every write may succeed or fail.                *)

NextSave ==
    \/ \E filename \in {ProgFile, TextFile} : open_unopened(filename)
    \/ \E i \in 1..MaxTabs : tabCloseRequested(i)
    \/ \E i \in 1..MaxTabs : currentChanged(i)
    \/ editor_modified
    \/ actionSave_triggered
    \/ actionSave_as_triggered

SpecSave == Init /\ [][NextSave]_vars

-----------------------------------------------------------------------------
(* SpecBuild: Compile with its forced save.  A program and a subprogram    *)
(* can be opened once each; the editors are modified, tabs are switched,   *)
(* the active tab is compiled, and every write of the save may fail.       *)

NextBuild ==
    \/ \E filename \in {ProgFile, SubFile} : open_unopened(filename)
    \/ \E i \in 1..MaxTabs : currentChanged(i)
    \/ editor_modified
    \/ on_actionCompile_triggered
    \/ compile_returns

SpecBuild == Init /\ [][NextBuild]_vars

-----------------------------------------------------------------------------
(* SpecDiagnostics: the diagnostics list.  A program, a subprogram and a   *)
(* text file can be opened once each; the active tab is compiled, tabs are *)
(* switched and closed.                                                    *)

NextDiagnostics ==
    \/ \E filename \in {ProgFile, SubFile, TextFile} : open_unopened(filename)
    \/ \E i \in 1..MaxTabs : tabCloseRequested(i)
    \/ \E i \in 1..MaxTabs : currentChanged(i)
    \/ on_actionCompile_triggered
    \/ compile_returns

SpecDiagnostics == Init /\ [][NextDiagnostics]_vars

-----------------------------------------------------------------------------
(* SpecClose: closing the window.  A program and a text file can be opened *)
(* once each; editors are modified and saved, tabs are switched, and the   *)
(* window is asked to close by its close button or by the Quit action.     *)

NextClose ==
    \/ \E filename \in {ProgFile, TextFile} : open_unopened(filename)
    \/ \E i \in 1..MaxTabs : currentChanged(i)
    \/ editor_modified
    \/ actionSave_triggered
    \/ closeEvent_received
    \/ on_actionQuit_triggered

SpecClose == Init /\ [][NextClose]_vars

-----------------------------------------------------------------------------
(* SpecClick: double-clicks on the diagnostics list.  It starts where the  *)
(* program file has been opened and compiled with errors; the item in the  *)
(* list is any text of up to MaxItemLen characters, the cursor is on one   *)
(* of the first lines, and the user double-clicks the item.                *)

WCompiled ==
    set_errors(on_actionSave_triggered(open_file(W0, ProgFile, None),
                                       "ok", "ok"),
               Diagnostics(ProgFile, 1))

StartLines == {1, 2}

InitClick ==
    /\ \E line \in StartLines :
          InitWindow([f \in {"ui", "settings", "recent", "dialog"} |->
                            WCompiled[f]]
                     @@ [tm |-> [WCompiled.tm EXCEPT
                                    !.tabs[1].cursor = line]])
    /\ item \in ItemTexts
    /\ probe = NoProbe

NextClick == itemDoubleClicked

SpecClick == InitClick /\ [][NextClick]_vars

-----------------------------------------------------------------------------
(* SpecDetect: detect_file_type on every path of up to MaxPathLen lexemes  *)
(* and every file of up to MaxFileLines lines.                             *)

PathLexemes == {"a", ".", "cbl", "CBL", "/"}

ProbeLines ==
    { PROC_DIV_USING,
      <<"procedure", " ", "division", " ", "using">>,
      <<"X", " ", "Procedure", " ", "DIVISION", " ", "using", " ", "X">>,
      <<"PROCEDURE", " ", "DIVISION", ".">>,
      <<"PROCEDURE", " ", " ", "DIVISION", " ", "USING">>,
      <<"PROCEDURE", " ", "DIVISION", " ">>,
      <<"USING", " ", "X">>,
      <<>> }

ProbeFiles ==
    {[readable |-> FALSE, lines |-> <<>>]}
    \cup {[readable |-> TRUE, lines |-> ls] :
            ls \in SeqsUpTo(ProbeLines, MaxFileLines)}

InitDetect ==
    /\ InitWindow(W0)
    /\ item = NoItem
    /\ probe \in [path : SeqsUpTo(PathLexemes, MaxPathLen),
                  file : ProbeFiles, type : {None}]

Detect ==
    /\ probe.type = None
    /\ probe' = [probe EXCEPT !.type = detect_file_type(probe.path, probe.file)]
    /\ UNCHANGED <<tm, ui, settings, recent, dialog, pool, events, appended,
                   uiPc, lastOp, item>>

NextDetect == Detect

SpecDetect == InitDetect /\ [][NextDetect]_vars

-----------------------------------------------------------------------------
(* Claims about the open workflow and the toolbar (Spec)                   *)

AppState == <<tm, ui, settings, recent>>

\* C1: in every reachable state one of the Home page and the Editor page is
\* current, and the Editor page is current exactly when some tab is open.
C1_PageFollowsTabs ==
    /\ ui.page \in {PAGE_HOME, PAGE_EDITOR}
    /\ (ui.page = PAGE_EDITOR) <=> has_open_tabs(tm)

\* C2: _open_file with an empty path or a path that does not exist changes
\* nothing: tabs, page, last-used path, recent files, toolbar, dialogs.
C2_RejectedOpenChangesNothing ==
    [][(lastOp'.op = "open" /\ lastOp'.arg \in {"empty", "missing"})
        => (lastOp'.res = "rejected" /\ UNCHANGED <<AppState, dialog>>)]_vars

C2_Witness ==
    /\ lastOp = [op |-> "open", arg |-> "missing", res |-> "rejected"]
    /\ has_open_tabs(tm)

\* C3: an open that fails with a decode error shows the error dialog and
\* leaves tabs, page, last-used path, recent files and toolbar as they were.
C3_DecodeErrorChangesNothing ==
    [][(lastOp'.op = "open" /\ lastOp'.res = "UnicodeDecodeError")
        => (dialog' = "Bad encoding" /\ UNCHANGED AppState)]_vars

DerivedState ==
    IF ~ has_open_tabs(tm) THEN "no file"
    ELSE IF IsCobolEditor(tm) THEN "cobol"
    ELSE "text"

AfterTabChangeOrOpen ==
    \/ lastOp.op = "tabChanged"
    \/ lastOp.op = "open" /\ lastOp.res = "opened"

FileActions(save, compile, run, toggle) ==
    /\ ui.act.save = save
    /\ ui.act.save_as = save
    /\ ui.act.compile = compile
    /\ ui.act.run = run
    /\ ui.act.program = toggle
    /\ ui.act.subprogram = toggle

\* C5 as stated: after a tab-changed notification or a successful open, with
\* a COBOL tab active Save, Save-as, Compile, Run, Program and Subprogram
\* are all enabled (and the other two derived states as in C5_Toolbar).
C5_ToolbarAsStated ==
    AfterTabChangeOrOpen =>
        CASE DerivedState = "no file" -> FileActions(FALSE, FALSE, FALSE, FALSE)
          [] DerivedState = "text"    -> FileActions(TRUE, FALSE, FALSE, FALSE)
          [] DerivedState = "cobol"   -> FileActions(TRUE, TRUE, TRUE, TRUE)

\* C5 (amended): after a tab-changed notification or a successful open, with
\* no tab open all six actions are disabled; with a non-COBOL tab active
\* Save and Save-as are enabled and the other four disabled; with a COBOL
\* tab active Save, Save-as, Compile, Program and Subprogram are enabled and
\* Run is enabled exactly when the active tab's classification is Program.
C5_Toolbar ==
    AfterTabChangeOrOpen =>
        CASE DerivedState = "no file" -> FileActions(FALSE, FALSE, FALSE, FALSE)
          [] DerivedState = "text"    -> FileActions(TRUE, FALSE, FALSE, FALSE)
          [] DerivedState = "cobol"   ->
                FileActions(TRUE, TRUE, active_tab_type(tm) = Program, TRUE)

C5_Witness ==
    /\ lastOp.op = "open" /\ lastOp.res = "opened"
    /\ DerivedState = "cobol"
    /\ active_tab_type(tm) = Subprogram
    /\ ~ ui.act.run

-----------------------------------------------------------------------------
(* Claims about the run dispatcher (SpecRun, SpecCompile)                  *)

\* C4: in every reachable state Run is disabled when the active tab is a
\* Subprogram and enabled when it is a Program.
C4_RunFollowsClassification ==
    /\ active_tab_type(tm) = Subprogram => ~ ui.act.run
    /\ active_tab_type(tm) = Program => ui.act.run

Outstanding(r) ==
    \/ \E i \in 1..Len(pool.queue) : pool.queue[i] = r
    \/ r \in pool.active
    \/ \E i \in 1..Len(events) :
            events[i] = [kind |-> "finished", run |-> r]

\* C6: from the trigger of Run until the finished notification of that run
\* is delivered, the Run action is disabled.
C6_RunDisabledWhileOutstanding ==
    (\E r \in 1..pool.submitted : Outstanding(r)) => ~ ui.act.run

\* C7: runner tasks never execute at the same time, and every line appended
\* to the output view by an earlier run precedes every line of a later run.
C7_RunsAreSequential ==
    /\ Cardinality(pool.active) <= 1
    /\ \A i, j \in 1..Len(appended) : i < j => appended[i] <= appended[j]

C7_Witness ==
    /\ pool.submitted >= 2
    /\ \E i, j \in 1..Len(appended) :
            i < j /\ appended[i] = 1 /\ appended[j] = 2

\* C8: no compile operation executes while a run task executes, and no two
\* run tasks execute at the same time.
C8_OneTaskAtATime ==
    /\ ~ (uiPc = "compile" /\ pool.active # {})
    /\ Cardinality(pool.active) <= 1

Queued(r) == \E i \in 1..Len(pool.queue) : pool.queue[i] = r

FinishedPosted(r) ==
    \E i \in 1..Len(events) : events[i] = [kind |-> "finished", run |-> r]

\* C18: a Run submitted while another run executes is queued; under fair
\* scheduling every submitted run eventually executes, its finished
\* notification is eventually posted and eventually delivered; runs start
\* in the order of their submission and a queued run leaves the queue only
\* by starting.
C18_RunsQueuedAndServed ==
    /\ \A r \in 1..MaxRuns :
          /\ Queued(r) ~> (r \in pool.active)
          /\ (r \in pool.active) ~> FinishedPosted(r)
          /\ FinishedPosted(r) ~>
                (~ FinishedPosted(r) /\ ~ Queued(r) /\ r \notin pool.active)
    /\ [][\A r \in 1..MaxRuns :
            /\ (pool.submitted < r /\ pool.submitted' >= r) => Queued(r)'
            /\ (Queued(r) /\ ~ Queued(r)') => r \in pool.active'
            /\ (r \notin pool.active /\ r \in pool.active') =>
                  \A q \in 1..(r - 1) : ~ Queued(q)' /\ ~ Queued(q)
            /\ (FinishedPosted(r) /\ ~ FinishedPosted(r)') =>
                  lastOp'.op = "finished"]_vars

\* the second run was submitted while the first was executing, waited in
\* the queue, and executes now that the first has finished
C18_Witness ==
    /\ pool.submitted >= 2
    /\ 2 \in pool.active
    /\ FinishedPosted(1)
    /\ pool.emitted[1] > 0

-----------------------------------------------------------------------------
(* Claim about the diagnostics double-click (SpecClick)                    *)

BeforeFirstColon(text) ==
    LET k == CHOOSE k \in 0..Len(text) :
                /\ \A i \in 1..k : text[i] # ":"
                /\ k = Len(text) \/ text[k + 1] = ":"
    IN  SubSeq(text, 1, k)

Blanks(n) == [i \in 1..n |-> " "]

RECURSIVE Pow10(_)
Pow10(n) == IF n = 0 THEN 1 ELSE 10 * Pow10(n - 1)

RECURSIVE PositionalSum(_, _)
PositionalSum(d, i) ==
    IF i > Len(d) THEN 0
    ELSE Digit[d[i]] * Pow10(Len(d) - i) + PositionalSum(d, i + 1)

DigitStrings == SeqsUpTo({"0", "1"}, MaxItemLen) \ {<<>>}

\* the text is blanks, an optional minus sign, the digits d, blanks
Spells(text, neg, d) ==
    \E a, b \in 0..Len(text) :
        text = Blanks(a) \o (IF neg THEN <<"-">> ELSE <<>>) \o d \o Blanks(b)

IsInteger(text) == \E neg \in BOOLEAN, d \in DigitStrings : Spells(text, neg, d)

IntegerOf(text) ==
    LET nd == CHOOSE nd \in BOOLEAN \X DigitStrings : Spells(text, nd[1], nd[2])
    IN  IF nd[1] THEN 0 - PositionalSum(nd[2], 1) ELSE PositionalSum(nd[2], 1)

\* C9: a double-click on an item whose text before the first ':' is an
\* integer n puts the active editor's cursor on line n; on any other item it
\* changes nothing and raises no error.
C9_DoubleClick ==
    [][lastOp'.op = "doubleClick" =>
        IF IsInteger(BeforeFirstColon(item))
        THEN /\ active_tab(tm').cursor = IntegerOf(BeforeFirstColon(item))
             /\ lastOp'.res = "moved"
        ELSE /\ UNCHANGED <<AppState, dialog>>
             /\ lastOp'.res = "ignored"]_vars

C9_Witness ==
    /\ lastOp.op = "doubleClick" /\ lastOp.res = "moved"
    /\ item = <<"1", "0", ":">>
    /\ active_tab(tm).cursor = 10

-----------------------------------------------------------------------------
(* Claim about detect_file_type (SpecDetect)                               *)

EndsWithDotCbl(path) ==
    /\ Len(path) >= 2
    /\ path[Len(path)] = "cbl"
    /\ path[Len(path) - 1] = "."

lowerLexeme(t) ==
    CASE t \in {"PROCEDURE", "Procedure"} -> "procedure"
      [] t = "DIVISION" -> "division"
      [] t = "USING"    -> "using"
      [] t = "X"        -> "x"
      [] OTHER          -> t

HasMarkerAnyCase(line) ==
    \E k \in 0..Len(line) :
        /\ k + Len(PROC_DIV_USING) <= Len(line)
        /\ \A i \in 1..Len(PROC_DIV_USING) :
                lowerLexeme(line[k + i]) = lowerLexeme(PROC_DIV_USING[i])

\* C10: detect_file_type returns Text when the extension is not 'cbl'; for a
\* readable 'cbl' file it returns Subprogram when some line contains
\* "PROCEDURE DIVISION USING" in any case, and Program otherwise.
C10_DetectFileType ==
    probe.type # None =>
        /\ ~ EndsWithDotCbl(probe.path) => probe.type = Text
        /\ (EndsWithDotCbl(probe.path) /\ probe.file.readable) =>
              probe.type =
                 IF \E i \in 1..Len(probe.file.lines) :
                        HasMarkerAnyCase(probe.file.lines[i])
                 THEN Subprogram
                 ELSE Program

C10_Witness ==
    /\ probe.type = Subprogram
    /\ probe.path = <<"a", ".", "cbl">>
    /\ probe.file.lines =
          << <<"PROCEDURE", " ", "DIVISION", ".">>,
             <<"procedure", " ", "division", " ", "using">> >>

\* C15: with a COBOL tab active exactly one of the Program and Subprogram
\* actions is checked, the one of the active tab's classification; with a
\* text tab active or no tab open neither is checked.  Triggering one of
\* the two actions gives the active COBOL tab that action's classification
\* and changes no other tab and no Text tab.
C15_TogglesFollowClassification ==
    /\ [](IF IsCobolEditor(tm)
          THEN /\ ui.act.programChecked # ui.act.subprogramChecked
               /\ ui.act.programChecked <=> active_tab_type(tm) = Program
               /\ ui.act.subprogramChecked <=>
                        active_tab_type(tm) = Subprogram
          ELSE ~ ui.act.programChecked /\ ~ ui.act.subprogramChecked)
    /\ [][lastOp'.op = "fileType" =>
            /\ Len(tm'.tabs) = Len(tm.tabs)
            /\ tm'.active = tm.active
            /\ \A i \in 1..Len(tm.tabs) :
                  IF i = tm.active /\ tm.tabs[i].fileType # Text
                  THEN tm'.tabs[i] =
                          [tm.tabs[i] EXCEPT !.fileType =
                              IF lastOp'.arg = "program"
                              THEN Program ELSE Subprogram]
                  ELSE tm'.tabs[i] = tm.tabs[i]]_vars

\* the Subprogram action was triggered on a program while a text tab and
\* the program tab are open: the program tab is now a subprogram
C15_Witness ==
    /\ lastOp.op = "fileType"
    /\ lastOp.arg = "subprogram"
    /\ Len(tm.tabs) = 2
    /\ tm.active = 2
    /\ tm.tabs[1].fileType = Text
    /\ tm.tabs[2].file = ProgFile
    /\ tm.tabs[2].fileType = Subprogram
    /\ ui.act.subprogramChecked

-----------------------------------------------------------------------------
(* Claims about the classification of an opened file (SpecNew)             *)

\* C16: _open_file given a classification (Text, Program or Subprogram)
\* requests the tab with exactly that classification, whatever
\* detect_file_type would answer for the file; a tab opened without a
\* classification has the one detect_file_type answers.
C16_ExplicitClassification ==
    [][/\ (lastOp'.op = "new" /\ lastOp'.res = "opened") =>
            /\ Len(tm'.tabs) = Len(tm.tabs) + 1
            /\ tm'.active = Len(tm'.tabs)
            /\ active_tab(tm').fileType = lastOp'.arg.choice
       /\ (lastOp'.op = "open" /\ lastOp'.res = "opened") =>
            /\ tm'.active = Len(tm.tabs) + 1
            /\ active_tab(tm').fileType =
                  detect_file_type(active_tab_filename(tm'),
                                   FileAt(active_tab_filename(tm')))]_vars

\* a file named n.txt was created as a Program: its tab is a Program,
\* where detection answers Text
C16_Witness ==
    /\ lastOp.op = "new"
    /\ lastOp.res = "opened"
    /\ lastOp.arg.choice = Program
    /\ suffix(active_tab_filename(tm)) = <<"txt">>
    /\ active_tab_type(tm) = Program
    /\ detect_file_type(active_tab_filename(tm), EmptyFile) = Text

-----------------------------------------------------------------------------
(* Claims about Save, Save-as and Compile (SpecSave)                       *)

\* C11: Save writes the active tab with its tagged encoding; the write is
\* retried, once and with utf-8, exactly when it failed with an encoding
\* error; when the first write or the retry succeeds the recent-files record
\* holds the file and the status bar shows the editor's file and encoding;
\* a first write that succeeded is the only write.
C11_SaveRetriesOnceOnEncodingError ==
    [][lastOp'.op = "save" =>
         LET wr == lastOp'.arg
             fn == active_tab_filename(tm)
         IN  /\ Len(wr) \in {1, 2}
             /\ wr[1].file = fn
             /\ wr[1].encoding = active_tab(tm).tagEncoding
             /\ (Len(wr) = 2) <=> (wr[1].outcome = "UnicodeEncodeError")
             /\ Len(wr) = 2 => wr[2].file = fn /\ wr[2].encoding = "utf-8"
             /\ wr[1].outcome = "ok" => Len(wr) = 1
             /\ wr[Len(wr)].outcome = "ok" =>
                    /\ fn \in recent'
                    /\ ui'.status = [filename |-> fn,
                                     encoding |-> wr[Len(wr)].encoding]
                    /\ ~ active_tab(tm').dirty]_vars

\* a Save whose first write failed with an encoding error and whose retry
\* with utf-8 succeeded: the status bar shows the new encoding
C11_Witness ==
    /\ lastOp.op = "save"
    /\ Len(lastOp.arg) = 2
    /\ lastOp.res = "saved"
    /\ ui.status.encoding = "utf-8"
    /\ active_tab_filename(tm) \in recent

\* C12: Save-as changes the last-used path only when the chosen path is not
\* empty and the write succeeded; with an empty chosen path nothing is
\* written and the last-used path and the recent-files record stay as they
\* were.
C12_SaveAsLastUsedPath ==
    [][lastOp'.op = "save_as" =>
         LET a == lastOp'.arg
         IN  /\ settings'.last_used_path # settings.last_used_path =>
                    /\ a.filename # <<>>
                    /\ a.writes # <<>>
                    /\ a.writes[Len(a.writes)].outcome = "ok"
             /\ a.filename = <<>> =>
                    /\ a.writes = <<>>
                    /\ settings' = settings
                    /\ recent' = recent]_vars

\* a Save-as into another directory that succeeded: the last-used path is
\* the directory of the editor's new file
C12_Witness ==
    /\ lastOp.op = "save_as"
    /\ lastOp.res = "saved"
    /\ lastOp.arg.filename # <<>>
    /\ settings.last_used_path = <<"out">>
    /\ active_tab_filename(tm) = <<"out", "/", "q", ".", "cbl">>

-----------------------------------------------------------------------------
(* Claims about the Open action (SpecOpen)                                 *)

\* C13: the Open action ends without an unhandled error in every state,
\* also when the dialog was cancelled or the path is rejected while no tab
\* is open: it opens the file, shows the encoding dialog, or does nothing.
C13_OpenNeverRaises ==
    lastOp.op = "actionOpen" =>
        lastOp.res \in {"opened", "rejected", "UnicodeDecodeError"}

-----------------------------------------------------------------------------
(* Claims about Compile (SpecBuild)                                        *)

\* C14: on every Compile the active tab is saved first, then cobol.compile
\* is invoked with the active tab's filename and classification, then the
\* diagnostics are set on that same tab.  While cobol.compile runs the
\* active editor holds no unsaved change; a Compile whose save failed does
\* not invoke cobol.compile and sets no diagnostics.
C14_CompileOrder ==
    /\ [](uiPc = "compile" =>
            /\ lastOp.op = "compile"
            /\ lastOp.res = "saved"
            /\ lastOp.arg = [filename |-> active_tab_filename(tm),
                             type |-> active_tab_type(tm)]
            /\ ~ active_tab(tm).dirty
            /\ active_tab_filename(tm) \in recent)
    /\ [][LET saveFailed == /\ lastOp'.op = "compile"
                            /\ lastOp'.res \notin {"saved", "done"}
               returned   == uiPc = "compile" /\ uiPc' = "idle"
           IN  /\ saveFailed =>
                    /\ uiPc' = "idle"
                    /\ tm' = tm
                    /\ ui'.listErrors = ui.listErrors
               /\ returned =>
                    /\ tm'.active = tm.active
                    /\ active_tab_filename(tm') = lastOp.arg.filename
                    /\ active_tab(tm').compiles = active_tab(tm).compiles + 1
                    /\ ui'.listErrors = active_tab(tm').errors
                    /\ \A i \in 1..Len(tm.tabs) :
                          i # tm.active => tm'.tabs[i] = tm.tabs[i]]_vars

\* a modified editor was compiled: it was saved on the retry with utf-8,
\* and the compile returned diagnostics for it
C14_Witness ==
    /\ lastOp.op = "compile"
    /\ lastOp.res = "done"
    /\ active_tab(tm).tagEncoding = "utf-8"
    /\ active_tab(tm).errors # {}
    /\ ~ active_tab(tm).dirty
    /\ Len(tm.tabs) = 2

-----------------------------------------------------------------------------
(* Claims about the diagnostics list (SpecDiagnostics)                     *)

\* C17: in every reachable state the diagnostics list shows the diagnostics
\* of the active tab's most recent compile, and nothing else: it is empty
\* with a text tab active or no tab open, and it shows no diagnostics of a
\* tab that was active before.
C17_ListShowsActiveTabDiagnostics ==
    ui.listErrors = IF IsCobolEditor(tm) THEN active_tab(tm).errors ELSE {}

-----------------------------------------------------------------------------
(* Claims about closing the window (SpecClose)                             *)

\* C19: a close request is accepted exactly when the Tab Manager is clean
\* or cleanup() returned true; cleanup() is called exactly when the Tab
\* Manager is not clean; when it is not clean and cleanup() returned false
\* the request stays ignored and the window stays open with its tabs.
C19_CloseAcceptedIffCleanOrCleanup ==
    [][(lastOp'.op \in {"closeEvent", "quit"} /\ uiPc = "idle") =>
          LET a == lastOp'.arg
          IN  /\ (uiPc' = "closed") <=>
                      (is_clean(tm) \/ (a.cleanup_called /\ a.cleanup))
              /\ (lastOp'.res = "accepted") <=> (uiPc' = "closed")
              /\ a.cleanup_called <=> ~ is_clean(tm)
              /\ (~ is_clean(tm) /\ ~ a.cleanup) =>
                      /\ lastOp'.res = "ignored"
                      /\ uiPc' = "idle"
                      /\ tm' = tm
                      /\ ui' = ui]_vars

\* Quit with two tabs open, one of them modified, and cleanup() answering
\* false: the window is still open with both tabs
C19_Witness ==
    /\ lastOp.op = "quit"
    /\ lastOp.res = "ignored"
    /\ lastOp.arg.cleanup_called
    /\ uiPc = "idle"
    /\ Len(tm.tabs) = 2
    /\ ~ is_clean(tm)

====
